---- MODULE Spec2Model ----
(***************************************************************************)
(* The RAG corpus pipeline of local_llm_ws: the file manager               *)
(* (createRAGFileManager), the persistence singleton                       *)
(* (RAGPersistenceService), embedMultiple of the Gemini client             *)
(* (createGeminiClient), the Google RAG service (createGoogleRAGService)   *)
(* and the vector search and context assembly of createRAGSearchService.   *)
(*                                                                         *)
(* One service instance is modelled.  indexFiles() is an async function:   *)
(* it is split into one action per stretch of code between two awaits, so  *)
(* every state with pc in Suspended is a point where another call on the   *)
(* same instance can run.  Mutating calls (addFiles, removeFile, clear,    *)
(* indexFiles) are started only while no indexFiles() is in flight.        *)
(*                                                                         *)
(* Texts are represented by their length: a document's content is a run of *)
(* `chars` characters holding no '.', '?', '!', newline or whitespace, so  *)
(* boundary snapping and trim() leave every window as it is.               *)
(*                                                                         *)
(* Spec and SpecWide follow the corpus through addFiles, removeFile, clear *)
(* and indexFiles; SpecContext follows getContext over a stored corpus;    *)
(* SpecChunk follows one chunkText call (lib/text-chunker and the ragUi    *)
(* copy) turn by turn, over texts given by their length and the positions  *)
(* of their '.'; SpecLex follows one call of the lexical search engine;    *)
(* SpecSearch follows one search or getContext call over an indexed        *)
(* corpus; SpecAgain follows a second indexFiles() behind a first one;     *)
(* SpecClient follows the browser's ClientRAGService, each of whose        *)
(* requests is served by a service created over the persistence singleton; *)
(* SpecPage follows the handleIndexFiles calls of the page, one at a       *)
(* time, with their timers; SpecLong follows chunkText with the default    *)
(* configuration on documents of MAX_FILE_SIZE characters.                 *)
(***************************************************************************)
EXTENDS Integers, Sequences, FiniteSets, TLC

\* ------------------------------------------------------------------ bounds
\* Documents ever handed to addFiles by the client (their ids are 1..MaxFiles);
\* SpecWide follows one document more.
MaxFiles == 2
\* Documents in one addFiles call.
MaxBatch == 2
\* indexFiles() calls that are followed.
MaxRuns == 1
\* Documents per file-manager batch (5 in the code, scaled down).
batchSize == 1
\* Chunks per embedMultiple call (100 in the code, scaled down).
embedBatchSize == 2
\* One slow await takes Step ms; the clock is followed up to MaxSlow slow awaits.
Step == 61000
MaxSlow == 2
\* embedContent calls that throw during one indexFiles() run.
MaxThrows == 1
\* Chunks of a corpus handed to getContext in SpecContext.
MaxCorpus == 7
\* The chunk ceiling of the file manager (10000 in the code, scaled down to
\* more than two and fewer than three documents' chunks).
FM_MAX_CHUNKS_IN_MEMORY == 7
\* The chunk ceiling of the service (8000 in the code, scaled down).
MAX_CHUNKS_IN_MEMORY == 5
\* The embedding ceiling of the service (4000 in the code, scaled down to a
\* whole number of embedMultiple calls, as in the code).
MAX_EMBEDDINGS_IN_MEMORY == 4

\* ------------------------------------------------------- program constants
chunkSize == 800
overlap == 150
MAX_FILE_SIZE == 500000
MAX_TOTAL_CHARS == 10000000
GOOGLE_TOTAL_CHARS == 5000000
maxProcessingTime == 60000
timeoutMs == 90000
maxTime == 30000
ContextTopK == 6

\* ----------------------------------------------------------------- helpers
Min(a, b) == IF a < b THEN a ELSE b

CeilDiv(a, b) == (a + b - 1) \div b

RECURSIVE SumLen(_)
\* chunks.reduce((sum, c) => sum + c.content.length, 0)
SumLen(cs) == IF cs = <<>> THEN 0 ELSE cs[1].len + SumLen(Tail(cs))

\* array.slice(from, to) with 0-based, end-exclusive indices.
Slice(s, from, to) == SubSeq(s, from + 1, Min(to, Len(s)))

\* ---------------------------------------------------------------- documents
\* What the client (sidebarUi/file-upload.tsx) hands to addFiles: a text of
\* `chars` characters, or a record with empty content and an error message.
FileKinds ==
  { [chars |-> 1000, error |-> "none"],
    [chars |-> 4000000, error |-> "none"],
    [chars |-> 0, error |-> "upload"] }

NewFile(id, kind) ==
  [id |-> id, name |-> "a.txt", chars |-> kind.chars, error |-> kind.error,
   indexed |-> FALSE]

\* !file.error && file.content && file.content.trim().length > 0
IsValid(f) == f.error = "none" /\ f.chars > 0

\* ------------------------------------------------------------------ chunker
\* The while loop of processFileInBatches on a text of file.chars characters.
RECURSIVE ChunkLoop(_, _, _, _)
ChunkLoop(file, startIndex, iterationCount, allChunks) ==
  LET maxIterations == CeilDiv(file.chars, chunkSize - overlap) + 100
  IN IF ~(startIndex < file.chars /\ iterationCount < maxIterations)
     THEN allChunks
     ELSE LET endIndex == Min(startIndex + chunkSize, file.chars)
              actualEndIndex == endIndex
              contentLen == actualEndIndex - startIndex
              pushed == IF contentLen > 50
                        THEN Append(allChunks,
                               [id |-> <<file.id, startIndex>>, fileId |-> file.id,
                                fileName |-> file.name, len |-> contentLen,
                                startIndex |-> startIndex,
                                endIndex |-> actualEndIndex])
                        ELSE allChunks
              newStartIndex == actualEndIndex - overlap
              next == IF newStartIndex <= startIndex THEN actualEndIndex
                      ELSE newStartIndex
          IN IF next >= file.chars THEN pushed
             ELSE ChunkLoop(file, next, iterationCount + 1, pushed)

processFileInBatches(file) == ChunkLoop(file, 0, 0, <<>>)

\* -------------------------------------------------------------------- state
VARIABLES
  fileObj,        \* the FileInfo objects, by id; the lists below share them
  files,          \* RAGFileManager: let files (ids)
  fmChunks,       \* RAGFileManager: let chunks
  dataFiles,      \* RAGPersistenceService: data.files (ids)
  dataChunks,     \* RAGPersistenceService: data.chunks
  dataEmbeddings, \* RAGPersistenceService: data.embeddings
  chunks,         \* GoogleRAGService: let chunks
  embeddings,     \* GoogleRAGService: let embeddings
  pc,             \* where indexFiles() of the service stands
  runs,           \* indexFiles() calls so far
  fi,             \* RAGFileManager.indexFiles: i of the batch loop
  fj,             \* RAGFileManager.indexFiles: index of the file being processed
  elapsed,        \* Date.now() - startTime of the running indexFiles()
  deadlineHit,    \* a deadline check of this run has found the deadline exceeded
  allEmbeddings,  \* GoogleRAGService.indexFiles: const allEmbeddings
  bi,             \* GoogleRAGService.indexFiles: i of the embedding loop
  emTexts,        \* embedMultiple: texts (the chunk ids they are the content of)
  emOut,          \* embedMultiple: embeddings
  emI,            \* embedMultiple: i
  emElapsed,      \* embedMultiple: Date.now() - startTime
  cQuery,         \* getContext: query (empty or not) and its embedding
  cMaxLength,     \* getContext: maxLength
  cResult,        \* getContext: the returned text, as its pieces
  cPhase,         \* getContext: "input" before the call, "returned" after it
  kVariant,       \* chunkText: which text chunker runs ("lib" or "ragUi")
  kText,          \* chunkText: text
  kOptions,       \* chunkText: chunkSize and overlap
  kStartIndex,    \* chunkText: startIndex
  kIterationCount,\* chunkText: iterationCount
  kChunks,        \* chunkText: chunks
  kPc,            \* chunkText: "input", "loop" (at the loop head), "body" or "returned"
  lChunks,        \* lexical search: chunks (their contents)
  lQuery,         \* lexical search: query
  lTopK,          \* lexical search: options.topK
  lResult,        \* lexical search: the returned results
  lPc,            \* lexical search: "input", "returned" or "threw"
  sQuery,         \* search of the service: query and its embedding
  sTopK,          \* search of the service: topK
  sResult,        \* search of the service: the returned results
  sPc,            \* search of the service: "input" or "returned"
  clientFiles,    \* ClientRAGService: private files (ids)
  isIndexing,     \* page: the isIndexing state
  hPc,            \* handleIndexFiles: where the call stands
  hElapsed,       \* handleIndexFiles: milliseconds since startTime
  hPromise,       \* handleIndexFiles: state of ragService.indexFiles()'s promise
  hInterval,      \* handleIndexFiles: progressInterval is set
  hTimeout,       \* handleIndexFiles: state of the timer of timeoutPromise
  pageError,      \* page: the error state
  pageIndexed,    \* page: every document of the files state is flagged indexed
  hEarlier        \* promises of earlier ragService.indexFiles() calls still pending

registry == <<fileObj, files, dataFiles>>
lists == <<chunks, embeddings>>
store == <<dataChunks, dataEmbeddings>>
fmLoop == <<fi, fj>>
embedLoop == <<allEmbeddings, bi>>
embedCall == <<emTexts, emOut, emI, emElapsed>>
clock == <<elapsed, deadlineHit>>
contextCall == <<cQuery, cMaxLength, cResult, cPhase>>
chunkCall == <<kVariant, kText, kOptions, kStartIndex, kIterationCount, kChunks,
               kPc>>
lexCall == <<lChunks, lQuery, lTopK, lResult, lPc>>
searchCall == <<sQuery, sTopK, sResult, sPc>>
handler == <<isIndexing, hPc, hElapsed, hPromise, hInterval, hTimeout,
             pageError, pageIndexed, hEarlier>>
page == <<clientFiles, handler>>
\* What no step of the service other than the start of indexFiles() touches.
other == <<runs, cQuery, cMaxLength, cResult, cPhase, chunkCall, lexCall,
           searchCall, page>>
service == <<fileObj, files, fmChunks, dataFiles, dataChunks, dataEmbeddings,
             chunks, embeddings, pc, runs, fi, fj, elapsed, deadlineHit,
             allEmbeddings, bi, emTexts, emOut, emI, emElapsed>>
vars == <<fileObj, files, fmChunks, dataFiles, dataChunks, dataEmbeddings,
          chunks, embeddings, pc, runs, fi, fj, elapsed, deadlineHit,
          allEmbeddings, bi, emTexts, emOut, emI, emElapsed,
          cQuery, cMaxLength, cResult, cPhase,
          kVariant, kText, kOptions, kStartIndex, kIterationCount, kChunks, kPc,
          lChunks, lQuery, lTopK, lResult, lPc,
          sQuery, sTopK, sResult, sPc,
          clientFiles, isIndexing, hPc, hElapsed, hPromise, hInterval, hTimeout,
          pageError, pageIndexed, hEarlier>>

\* No indexFiles() is in flight.
Quiescent == pc \in {"idle", "done", "failed"}

\* indexFiles() is parked at one of its awaits: fileManager.indexFiles() and the
\* awaits inside it, embedMultiple and the awaits inside it, the setTimeout(0)
\* after a sub-batch.
Suspended ==
  \/ pc \in {"fmFile", "afterFm", "embedText", "embedReturned"}
  \/ pc = "embedBatch" /\ bi > 0

\* A service created over an empty persistence store.
NoCorpus ==
  /\ dataChunks = <<>>
  /\ dataEmbeddings = <<>>
  /\ chunks = <<>>
  /\ embeddings = <<>>

\* No document has been added.
NoDocuments ==
  /\ fileObj = <<>>
  /\ files = <<>>
  /\ dataFiles = <<>>

\* No indexFiles() is or has been in flight.
NoRun ==
  /\ fmChunks = <<>>
  /\ pc = "idle"
  /\ runs = 0
  /\ fi = 0
  /\ fj = 0
  /\ elapsed = 0
  /\ deadlineHit = FALSE
  /\ allEmbeddings = <<>>
  /\ bi = 0
  /\ emTexts = <<>>
  /\ emOut = <<>>
  /\ emI = 0
  /\ emElapsed = 0

NoCall == NoDocuments /\ NoRun

ContextIdle ==
  /\ cQuery = [kind |-> "empty", embedding |-> <<>>]
  /\ cMaxLength = 0
  /\ cResult = <<>>
  /\ cPhase = "input"

\* No chunkText call has been made.
ChunkIdle ==
  /\ kVariant = "lib"
  /\ kText = [len |-> 0, dots |-> {}, letters |-> 0]
  /\ kOptions = [chunkSize |-> chunkSize, overlap |-> overlap]
  /\ kStartIndex = 0
  /\ kIterationCount = 0
  /\ kChunks = <<>>
  /\ kPc = "input"

\* No lexical search has been made.
LexIdle ==
  /\ lChunks = <<>>
  /\ lQuery = [padded |-> FALSE, words |-> <<>>]
  /\ lTopK = 5
  /\ lResult = <<>>
  /\ lPc = "input"

\* No search has been made on the service.
SearchIdle ==
  /\ sQuery = [kind |-> "empty", embedding |-> <<>>]
  /\ sTopK = 5
  /\ sResult = <<>>
  /\ sPc = "input"

\* The page is open on a client service without documents, and
\* handleIndexFiles has not been called.
PageIdle ==
  /\ clientFiles = <<>>
  /\ isIndexing = FALSE
  /\ hPc = "idle"
  /\ hElapsed = 0
  /\ hPromise = "none"
  /\ hInterval = FALSE
  /\ hTimeout = "none"
  /\ pageError = "none"
  /\ pageIndexed = FALSE
  /\ hEarlier = 0

Init ==
  /\ NoCorpus /\ NoCall /\ ContextIdle /\ ChunkIdle /\ LexIdle /\ SearchIdle
  /\ PageIdle

\* ------------------------------------------------------ RAGPersistenceService
\* setChunks(c); setEmbeddings(e)
Persist(c, e) == dataChunks' = c /\ dataEmbeddings' = e

\* ------------------------------------------------------------- RAGFileManager
RECURSIVE SumChars(_, _)
\* list.reduce((sum, f) => sum + f.characterCount, 0) over the objects of heap
SumChars(heap, ids) ==
  IF ids = <<>> THEN 0 ELSE heap[ids[1]].chars + SumChars(heap, Tail(ids))

RECURSIVE ValidIds(_, _)
\* newFiles.filter(file => !file.error && file.content && ...trim().length > 0)
ValidIds(heap, ids) ==
  IF ids = <<>> THEN <<>>
  ELSE (IF IsValid(heap[ids[1]]) THEN <<ids[1]>> ELSE <<>>)
       \o ValidIds(heap, Tail(ids))

\* RAGFileManager.addFiles: the value of `files` after the call.
fmAddFiles(heap, current, newFiles) ==
  LET validFiles == ValidIds(heap, newFiles)
      currentTotalChars == SumChars(heap, current)
      newTotalChars == SumChars(heap, validFiles)
  IN IF currentTotalChars + newTotalChars > MAX_TOTAL_CHARS THEN current
     ELSE current \o validFiles

\* RAGFileManager.removeFile
fmRemoveFile(fileId) ==
  /\ files' = SelectSeq(files, LAMBDA id : id # fileId)
  /\ fmChunks' = SelectSeq(fmChunks, LAMBDA c : c.fileId # fileId)

\* ------------------------------------------------------------ GoogleRAGService
\* The batches the client can send next: documents with fresh ids.
Batches(limit) ==
  LET n == Len(fileObj)
  IN { b \in UNION { [1..k -> FileKinds] : k \in 1..MaxBatch } :
         n + Len(b) <= limit }

addFiles(batch) ==
  LET n == Len(fileObj)
      heap == fileObj \o [k \in 1..Len(batch) |-> NewFile(n + k, batch[k])]
      newFiles == [k \in 1..Len(batch) |-> n + k]
      currentTotalChars == SumLen(chunks)
      newTotalChars == SumChars(heap, newFiles)
  IN /\ Quiescent
     /\ IF currentTotalChars + newTotalChars > GOOGLE_TOTAL_CHARS
        THEN UNCHANGED <<fileObj, files, dataFiles>>
        ELSE /\ fileObj' = heap
             /\ files' = fmAddFiles(heap, files, newFiles)
             /\ dataFiles' = dataFiles \o newFiles
     /\ pc' = "idle"
     /\ deadlineHit' = FALSE
     /\ UNCHANGED <<fmChunks, lists, store, fmLoop, elapsed, embedLoop, embedCall,
                    other>>

RECURSIVE FilterEmbeddings(_, _, _, _)
\* embeddings.filter((_, index) => { const chunk = cs[index];
\*                                   return chunk && chunk.fileId !== fileId })
\* from position i (1-based) on.
FilterEmbeddings(embs, i, cs, fileId) ==
  IF i > Len(embs) THEN <<>>
  ELSE (IF i <= Len(cs) /\ cs[i].fileId # fileId THEN <<embs[i]>> ELSE <<>>)
       \o FilterEmbeddings(embs, i + 1, cs, fileId)

RECURSIVE persistenceFilter(_, _, _, _)
\* this.data.embeddings.filter((_, index) => { const chunk = cs[index];
\*                                             return chunk && !chunkIds.has(chunk.id) })
\* from position i (1-based) on.
persistenceFilter(embs, i, cs, chunkIds) ==
  IF i > Len(embs) THEN <<>>
  ELSE (IF i <= Len(cs) /\ cs[i].id \notin chunkIds THEN <<embs[i]>> ELSE <<>>)
       \o persistenceFilter(embs, i + 1, cs, chunkIds)

\* RAGPersistenceService.removeFile on data = [files, chunks, embeddings]: the
\* chunks are replaced first, so fileChunks and chunkIds are read from the
\* replaced list, and so is data.chunks[index] in the embedding filter.
persistenceRemoveFile(data, fileId) ==
  LET newFiles == SelectSeq(data.files, LAMBDA f : f # fileId)
      newChunks == SelectSeq(data.chunks, LAMBDA c : c.fileId # fileId)
      fileChunks == SelectSeq(newChunks, LAMBDA c : c.fileId = fileId)
      chunkIds == {fileChunks[k].id : k \in 1..Len(fileChunks)}
  IN [files |-> newFiles,
      chunks |-> newChunks,
      embeddings |-> persistenceFilter(data.embeddings, 1, newChunks, chunkIds)]

\* A removeFile that leaves both lists as they are.
removeFileLists_KeepsChunks(cs, embs, fileId) ==
  [chunks |-> cs, embeddings |-> embs]

\* A removeFile that filters the chunks and leaves the embedding list alone.
removeFileLists_KeepsEmbeddings(cs, embs, fileId) ==
  [chunks |-> SelectSeq(cs, LAMBDA c : c.fileId # fileId),
   embeddings |-> embs]

\* The chunk and embedding lists after GoogleRAGService.removeFile: the chunk
\* list is replaced first, and the embedding filter reads the replaced list.
removeFileLists(cs, embs, fileId) ==
  LET filtered == SelectSeq(cs, LAMBDA c : c.fileId # fileId)
  IN [chunks |-> filtered,
      embeddings |-> FilterEmbeddings(embs, 1, filtered, fileId)]

removeFile(fileId) ==
  LET after == removeFileLists(chunks, embeddings, fileId)
  IN /\ Quiescent
     /\ fmRemoveFile(fileId)
     /\ chunks' = after.chunks
     /\ embeddings' = after.embeddings
     /\ Persist(after.chunks, after.embeddings)
     /\ pc' = "idle"
     /\ deadlineHit' = FALSE
     /\ UNCHANGED <<fileObj, dataFiles, fmLoop, elapsed, embedLoop, embedCall,
                    other>>

clear ==
  /\ Quiescent
  /\ chunks' = <<>>
  /\ embeddings' = <<>>
  /\ Persist(<<>>, <<>>)
  /\ files' = <<>>
  /\ fmChunks' = <<>>
  /\ pc' = "idle"
  /\ deadlineHit' = FALSE
  /\ UNCHANGED <<fileObj, dataFiles, fmLoop, elapsed, embedLoop, embedCall, other>>

\* --------------------------------------------------- indexFiles(), by await
\* An awaited call takes a negligible time or Step ms.
Delays == {d \in {0, Step} : elapsed + d <= MaxSlow * Step}

\* The locals of a call that has returned are gone.
NoFmLoop == fi' = 0 /\ fj' = 0
NoEmbedLoop == allEmbeddings' = <<>> /\ bi' = 0
NoEmbedCall == emTexts' = <<>> /\ emOut' = <<>> /\ emI' = 0 /\ emElapsed' = 0

\* A catch block that resets the embedding list and the store but leaves the
\* service's chunk list as the failed run built it.
IndexCatch_KeepsChunks ==
  /\ UNCHANGED chunks
  /\ embeddings' = <<>>
  /\ Persist(<<>>, <<>>)
  /\ pc' = "failed"

\* The catch block of GoogleRAGService.indexFiles; the error is thrown again.
IndexCatch ==
  /\ chunks' = <<>>
  /\ embeddings' = <<>>
  /\ Persist(<<>>, <<>>)
  /\ pc' = "failed"

\* The end of the try block: both lists are saved and indexFiles() returns.
IndexReturn(cs, embs) ==
  /\ chunks' = cs
  /\ embeddings' = embs
  /\ Persist(cs, embs)
  /\ pc' = "done"

\* A start of indexFiles() in which the file manager keeps the chunks it holds.
BeginRun_KeepsFmChunks ==
  /\ chunks' = <<>>
  /\ embeddings' = <<>>
  /\ UNCHANGED fmChunks
  /\ elapsed' = 0
  /\ deadlineHit' = FALSE
  /\ fi' = 0
  /\ fj' = 0
  /\ pc' = "fmBatch"
  /\ runs' = runs + 1
  /\ UNCHANGED <<registry, store, embedLoop, embedCall, contextCall,
                 chunkCall, lexCall, searchCall, page>>

\* indexFiles() up to `await fileManager.indexFiles()`, and the file manager's
\* indexFiles() up to its batch loop: both chunk lists and the embedding list
\* are emptied.
BeginRun ==
  /\ chunks' = <<>>
  /\ embeddings' = <<>>
  /\ fmChunks' = <<>>
  /\ elapsed' = 0
  /\ deadlineHit' = FALSE
  /\ fi' = 0
  /\ fj' = 0
  /\ pc' = "fmBatch"
  /\ runs' = runs + 1
  /\ UNCHANGED <<registry, store, embedLoop, embedCall, contextCall,
                 chunkCall, lexCall, searchCall, page>>

indexFilesStart ==
  /\ Quiescent
  /\ runs < MaxRuns
  /\ BeginRun

\* One more indexFiles() call, made right behind a call that has returned with
\* no deadline hit.
indexFilesAgain ==
  /\ pc = "done"
  /\ ~deadlineHit
  /\ runs = MaxRuns
  /\ BeginRun

\* RAGFileManager.indexFiles: the head of `for (i = 0; i < files.length; i += batchSize)`
\* with its deadline check; leaving the loop returns { chunks }.
fmNextBatch ==
  /\ pc = "fmBatch"
  /\ IF fi >= Len(files)
     THEN pc' = "afterFm" /\ NoFmLoop /\ UNCHANGED deadlineHit
     ELSE IF elapsed > maxProcessingTime
          THEN pc' = "afterFm" /\ NoFmLoop /\ deadlineHit' = TRUE
          ELSE pc' = "fmFile" /\ fj' = fi /\ UNCHANGED <<fi, deadlineHit>>
  /\ UNCHANGED <<registry, fmChunks, lists, store, elapsed, embedLoop, embedCall,
                 other>>

\* The body of `for (const file of batch)` for one file: what it does to the
\* file object and to the file manager's chunk list.
\* awaited: the file got as far as `await processFileInBatches(file)`.
fmFileOutcome(file, current) ==
  IF file.error # "none" \/ file.chars = 0
  THEN [file |-> file, chunks |-> current, awaited |-> FALSE]
  ELSE IF file.chars > MAX_FILE_SIZE
       THEN [file |-> [file EXCEPT !.error = "File too large for processing"],
             chunks |-> current, awaited |-> FALSE]
       ELSE LET fileChunks == processFileInBatches(file)
            IN IF Len(current) + Len(fileChunks) > FM_MAX_CHUNKS_IN_MEMORY
               THEN [file |-> [file EXCEPT
                                 !.error = "Memory limit reached during processing"],
                     chunks |-> current, awaited |-> TRUE]
               ELSE [file |-> [file EXCEPT !.indexed = TRUE],
                     chunks |-> current \o fileChunks, awaited |-> TRUE]

\* A loop over the files that is left as soon as one file has been given an
\* error.
fmProcessFile_StopsAtFailure ==
  /\ pc = "fmFile"
  /\ LET id == files[fj + 1]
         out == fmFileOutcome(fileObj[id], fmChunks)
         last == fj + 1 >= Min(fi + batchSize, Len(files))
         failed == out.file.error # "none"
     IN /\ fileObj' = [fileObj EXCEPT ![id] = out.file]
        /\ fmChunks' = out.chunks
        /\ fj' = IF failed THEN 0 ELSE fj + 1
        /\ fi' = IF failed THEN 0 ELSE IF last THEN fi + batchSize ELSE fi
        /\ pc' = IF failed THEN "afterFm" ELSE IF last THEN "fmBatch" ELSE "fmFile"
        /\ IF out.awaited THEN \E d \in Delays : elapsed' = elapsed + d
           ELSE UNCHANGED elapsed
  /\ UNCHANGED <<files, dataFiles, lists, store, deadlineHit, embedLoop,
                 embedCall, other>>

fmProcessFile ==
  /\ pc = "fmFile"
  /\ LET id == files[fj + 1]
         out == fmFileOutcome(fileObj[id], fmChunks)
         last == fj + 1 >= Min(fi + batchSize, Len(files))
     IN /\ fileObj' = [fileObj EXCEPT ![id] = out.file]
        /\ fmChunks' = out.chunks
        /\ fj' = fj + 1
        /\ fi' = IF last THEN fi + batchSize ELSE fi
        /\ pc' = IF last THEN "fmBatch" ELSE "fmFile"
        /\ IF out.awaited THEN \E d \in Delays : elapsed' = elapsed + d
           ELSE UNCHANGED elapsed
  /\ UNCHANGED <<files, dataFiles, lists, store, deadlineHit, embedLoop,
                 embedCall, other>>

\* After `await fileManager.indexFiles()`: the deadline check, the chunk
\* ceiling, and the way into the embedding loop.
afterFileManager ==
  /\ pc = "afterFm"
  /\ IF elapsed > timeoutMs
     THEN /\ deadlineHit' = TRUE
          /\ IndexCatch
          /\ elapsed' = 0
     ELSE LET newChunks == fmChunks
              kept == IF Len(newChunks) > MAX_CHUNKS_IN_MEMORY
                      THEN Slice(newChunks, 0, MAX_CHUNKS_IN_MEMORY)
                      ELSE newChunks
          IN /\ UNCHANGED deadlineHit
             /\ IF Len(kept) > 0
                THEN /\ chunks' = kept
                     /\ pc' = "embedBatch"
                     /\ UNCHANGED <<embeddings, store, elapsed>>
                ELSE /\ IndexReturn(kept, embeddings)
                     /\ elapsed' = 0
  /\ UNCHANGED <<registry, fmChunks, fmLoop, embedLoop, embedCall, other>>

\* The head of `for (i = 0; i < chunks.length; i += batchSize)` with its
\* deadline check, and the call of embedMultiple(chunkTexts).
embedNextBatch ==
  /\ pc = "embedBatch"
  /\ IF bi >= Len(chunks)
     THEN /\ IndexReturn(chunks, allEmbeddings)
          /\ NoEmbedLoop
          /\ elapsed' = 0
          /\ UNCHANGED <<deadlineHit, embedCall>>
     ELSE IF elapsed > timeoutMs
          THEN /\ deadlineHit' = TRUE
               /\ IndexCatch
               /\ NoEmbedLoop
               /\ elapsed' = 0
               /\ UNCHANGED embedCall
          ELSE LET batch == Slice(chunks, bi, bi + embedBatchSize)
               IN /\ emTexts' = [k \in 1..Len(batch) |-> batch[k].id]
                  /\ emOut' = <<>>
                  /\ emI' = 0
                  /\ emElapsed' = 0
                  /\ pc' = "embedText"
                  /\ UNCHANGED <<lists, store, clock, embedLoop>>
  /\ UNCHANGED <<registry, fmChunks, fmLoop, other>>

\* embedContent(text) of the provider: a vector that depends on the text alone.
EmbedModel(text) == <<text[1], 1 + text[2] \div 100>>

\* The vector pushed for texts[i]: the provider's, or the random fallback of the
\* catch block (its numbers are read by no step of indexFiles()).
Embedded(text) == [of |-> text, kind |-> "vec", v |-> EmbedModel(text)]
Fallback(text) == [of |-> text, kind |-> "fallback", v |-> <<1, 1>>]

Fallbacks(embs) == Cardinality({k \in 1..Len(embs) : embs[k].kind = "fallback"})

\* One turn of the loop of embedMultiple: the deadline check, then
\* embedContent(texts[i]) resolves or throws.  Leaving the loop returns embeddings.
embedMultipleStep ==
  /\ pc = "embedText"
  /\ IF emI >= Len(emTexts) \/ emElapsed > maxTime
     THEN /\ pc' = "embedReturned"
          /\ UNCHANGED <<embedCall, elapsed>>
     ELSE /\ \/ emOut' = Append(emOut, Embedded(emTexts[emI + 1]))
             \/ /\ Fallbacks(allEmbeddings) + Fallbacks(emOut) < MaxThrows
                /\ emOut' = Append(emOut, Fallback(emTexts[emI + 1]))
          /\ emI' = emI + 1
          /\ \E d \in Delays :
               elapsed' = elapsed + d /\ emElapsed' = emElapsed + d
          /\ pc' = "embedText"
          /\ UNCHANGED emTexts
  /\ UNCHANGED <<registry, fmChunks, lists, store, fmLoop, deadlineHit, embedLoop,
                 other>>

\* After `await geminiClient.embedMultiple(chunkTexts)`: the vectors are pushed,
\* the embedding ceiling is checked, and the loop yields.
embedReturn ==
  /\ pc = "embedReturned"
  /\ LET pushed == allEmbeddings \o emOut
     IN IF Len(pushed) > MAX_EMBEDDINGS_IN_MEMORY
        THEN /\ IndexReturn(chunks, pushed)
             /\ NoEmbedLoop
             /\ elapsed' = 0
        ELSE /\ allEmbeddings' = pushed
             /\ bi' = bi + embedBatchSize
             /\ pc' = "embedBatch"
             /\ UNCHANGED <<lists, store, elapsed>>
  /\ NoEmbedCall
  /\ UNCHANGED <<registry, fmChunks, fmLoop, deadlineHit, other>>

indexFiles ==
  \/ indexFilesStart
  \/ fmNextBatch
  \/ fmProcessFile
  \/ afterFileManager
  \/ embedNextBatch
  \/ embedMultipleStep
  \/ embedReturn

\* The calls a client makes on the service, with document ids up to limit.
Calls(limit) ==
  \/ \E batch \in Batches(limit) : addFiles(batch)
  \/ \E fileId \in 1..limit : removeFile(fileId)
  \/ clear
  \/ indexFiles

Next == Calls(MaxFiles)

Spec == Init /\ [][Next]_vars

NextWide == Calls(MaxFiles + 1)

SpecWide == Init /\ [][NextWide]_vars

NextAgain ==
  \/ Calls(MaxFiles)
  \/ indexFilesAgain

SpecAgain == Init /\ [][NextAgain]_vars

\* ------------------------------------------- ClientRAGService and the routes
\* Index requests of the client that are followed.
MaxRequests == 2

\* createGoogleRAGService() in a route handler followed by
\* ragService.addFiles(posted): the file manager of the new service starts
\* without documents, its chunk list is the one of the persistence store, and
\* the posted documents are pushed onto data.files. Documents are followed by
\* their id: the copies of a document that successive requests carry share one
\* record of fileObj.
routeAddFiles(heap, posted) ==
  LET currentTotalChars == SumLen(dataChunks)
      newTotalChars == SumChars(heap, posted)
  IN IF currentTotalChars + newTotalChars > GOOGLE_TOTAL_CHARS
     THEN /\ files' = <<>>
          /\ UNCHANGED dataFiles
     ELSE /\ files' = fmAddFiles(heap, <<>>, posted)
          /\ dataFiles' = dataFiles \o posted

\* ClientRAGService.addFiles(newFiles): POST /api/rag/files with action
\* "addFiles", then files = [...files, ...newFiles].
clientAddFiles(batch) ==
  LET n == Len(fileObj)
      heap == fileObj \o [k \in 1..Len(batch) |-> NewFile(n + k, batch[k])]
      newFiles == [k \in 1..Len(batch) |-> n + k]
  IN /\ Quiescent
     /\ fileObj' = heap
     /\ routeAddFiles(heap, newFiles)
     /\ fmChunks' = <<>>
     /\ chunks' = dataChunks
     /\ embeddings' = dataEmbeddings
     /\ clientFiles' = clientFiles \o newFiles
     /\ pc' = "idle"
     /\ deadlineHit' = FALSE
     /\ UNCHANGED <<store, fmLoop, elapsed, embedLoop, embedCall, runs,
                    contextCall, chunkCall, lexCall, searchCall, handler>>

\* ClientRAGService.indexFiles() up to the first await of the route handler:
\* POST /api/rag/index with the client's whole list, createGoogleRAGService(),
\* ragService.addFiles(files), and ragService.indexFiles() up to its batch loop.
\* The steps of indexFiles() follow; the client's list keeps its ids when the
\* response arrives.
clientIndexFiles ==
  /\ Quiescent
  /\ runs < MaxRequests
  /\ routeAddFiles(fileObj, clientFiles)
  /\ UNCHANGED fileObj
  /\ chunks' = <<>>
  /\ embeddings' = <<>>
  /\ fmChunks' = <<>>
  /\ elapsed' = 0
  /\ deadlineHit' = FALSE
  /\ fi' = 0
  /\ fj' = 0
  /\ pc' = "fmBatch"
  /\ runs' = runs + 1
  /\ UNCHANGED <<store, embedLoop, embedCall, contextCall, chunkCall, lexCall,
                 searchCall, page>>

NextClient ==
  \/ \E batch \in Batches(MaxFiles) : clientAddFiles(batch)
  \/ clientIndexFiles
  \/ fmNextBatch
  \/ fmProcessFile
  \/ afterFileManager
  \/ embedNextBatch
  \/ embedMultipleStep
  \/ embedReturn

SpecClient == Init /\ [][NextClient]_vars

\* ----------------------------------------------------- page: handleIndexFiles
\* const maxIndexingTime = 60000
maxIndexingTime == 60000
\* The period of progressInterval, in milliseconds.
progressPeriod == 2000

\* A setter of isIndexing that never turns it off.
setIsIndexing_OnlyOn(value) == isIndexing' = (isIndexing \/ value)

setIsIndexing(value) == isIndexing' = value

\* Promises of ragService.indexFiles() left pending by earlier calls that are
\* followed.
MaxPending == 1

\* A click on the index button, which the page shows over a list of documents
\* without errors and which is disabled while isIndexing is set or every
\* document is flagged indexed; one call of the handler is followed at a time.
\* handleIndexFiles() up to `await Promise.race(...)`: the spinner is turned
\* on, the error cleared, the flags of the documents reset, progressInterval
\* set, ragService.indexFiles() called and the timer of timeoutPromise armed.
\* The promise of the call before, if it is still pending, stays pending; the
\* timer of a call that has returned fires without effect and is not followed.
handleIndexFiles ==
  /\ hPc \in {"idle", "returned"}
  /\ ~isIndexing
  /\ ~pageIndexed
  /\ hPromise = "pending" => hEarlier < MaxPending
  /\ hEarlier' = IF hPromise = "pending" THEN hEarlier + 1 ELSE hEarlier
  /\ pageIndexed' = FALSE
  /\ setIsIndexing(TRUE)
  /\ pageError' = "none"
  /\ hElapsed' = 0
  /\ hInterval' = TRUE
  /\ hPromise' = "pending"
  /\ hTimeout' = "armed"
  /\ hPc' = "race"
  /\ UNCHANGED <<service, contextCall, chunkCall, lexCall, searchCall,
                 clientFiles>>

\* Two seconds pass, and the callback of progressInterval runs if the interval
\* is set: past maxIndexingTime it clears the interval, turns the spinner off
\* and sets the error. Time is followed up to the first tick past
\* maxIndexingTime.
progressTick ==
  /\ hPc # "idle"
  /\ hElapsed <= maxIndexingTime
  /\ hElapsed' = hElapsed + progressPeriod
  /\ IF hInterval /\ hElapsed' > maxIndexingTime
     THEN /\ hInterval' = FALSE
          /\ setIsIndexing(FALSE)
          /\ pageError' = "interval"
     ELSE UNCHANGED <<hInterval, isIndexing, pageError>>
  /\ UNCHANGED <<hPc, hPromise, hTimeout, pageIndexed, hEarlier>>
  /\ UNCHANGED <<service, contextCall, chunkCall, lexCall, searchCall,
                 clientFiles>>

\* The timer of timeoutPromise fires: timeoutPromise rejects, and so does the
\* race if it has not settled.
timeoutFires ==
  /\ hTimeout = "armed"
  /\ hElapsed >= maxIndexingTime
  /\ hTimeout' = "fired"
  /\ hPc' = IF hPc = "race" THEN "catch" ELSE hPc
  /\ UNCHANGED <<isIndexing, hElapsed, hPromise, hInterval, pageError,
                 pageIndexed, hEarlier>>
  /\ UNCHANGED <<service, contextCall, chunkCall, lexCall, searchCall,
                 clientFiles>>

\* The promise of ragService.indexFiles() settles, and with it the race if it
\* has not settled.
indexingSettles(outcome) ==
  /\ hPromise = "pending"
  /\ hPromise' = outcome
  /\ hPc' = IF hPc # "race" THEN hPc
            ELSE IF outcome = "resolved" THEN "try" ELSE "catch"
  /\ UNCHANGED <<isIndexing, hElapsed, hInterval, hTimeout, pageError,
                 pageIndexed, hEarlier>>
  /\ UNCHANGED <<service, contextCall, chunkCall, lexCall, searchCall,
                 clientFiles>>

\* The try block behind the await, which flags the documents indexed and runs
\* to its end or throws.
tryBlock ==
  /\ hPc = "try"
  /\ hPc' \in {"finally", "catch"}
  /\ pageIndexed' = TRUE
  /\ UNCHANGED <<isIndexing, hElapsed, hPromise, hInterval, hTimeout,
                 pageError, hEarlier>>
  /\ UNCHANGED <<service, contextCall, chunkCall, lexCall, searchCall,
                 clientFiles>>

catchBlock ==
  /\ hPc = "catch"
  /\ pageError' = "caught"
  /\ pageIndexed' = FALSE
  /\ hPc' = "finally"
  /\ UNCHANGED <<isIndexing, hElapsed, hPromise, hInterval, hTimeout,
                 hEarlier>>
  /\ UNCHANGED <<service, contextCall, chunkCall, lexCall, searchCall,
                 clientFiles>>

finallyBlock ==
  /\ hPc = "finally"
  /\ hInterval' = FALSE
  /\ setIsIndexing(FALSE)
  /\ hPc' = "returned"
  /\ UNCHANGED <<hElapsed, hPromise, hTimeout, pageError, pageIndexed,
                 hEarlier>>
  /\ UNCHANGED <<service, contextCall, chunkCall, lexCall, searchCall,
                 clientFiles>>

\* The promise of an earlier ragService.indexFiles() call settles; the call of
\* handleIndexFiles that awaited it has returned.
earlierSettles ==
  /\ hEarlier > 0
  /\ hEarlier' = hEarlier - 1
  /\ UNCHANGED <<isIndexing, hPc, hElapsed, hPromise, hInterval, hTimeout,
                 pageError, pageIndexed>>
  /\ UNCHANGED <<service, contextCall, chunkCall, lexCall, searchCall,
                 clientFiles>>

\* The steps the event loop takes by itself: timers and continuations.
PageRuns ==
  \/ progressTick
  \/ timeoutFires
  \/ tryBlock
  \/ catchBlock
  \/ finallyBlock

NextPage ==
  \/ handleIndexFiles
  \/ \E outcome \in {"resolved", "rejected"} : indexingSettles(outcome)
  \/ earlierSettles
  \/ PageRuns

\* Timers fire and continuations run; nothing makes the promise of
\* ragService.indexFiles() settle.
SpecPage == Init /\ [][NextPage]_vars /\ WF_vars(PageRuns)

\* ------------------------------------------------- search and context assembly
\* The value a.reduce((sum, val, i) => sum + val * b[i], 0) for equally long a, b.
RECURSIVE Dot(_, _)
Dot(a, b) == IF a = <<>> THEN 0 ELSE a[1] * b[1] + Dot(Tail(a), Tail(b))

\* A similarity that divides by the norms whatever they are: 0 / 0 for a vector
\* of norm 0, kept as the pair (0, 0).
cosineSimilarity_NoZeroNormCheck(a, b) ==
  [dot |-> Dot(a, b), sq |-> Dot(a, a) * Dot(b, b)]

\* cosineSimilarity(a, b): the number dot / sqrt(sq), kept as the pair (dot, sq)
\* so that two similarities compare without rounding; 0 when a norm is 0.
cosineSimilarity(a, b) ==
  LET dot == Dot(a, b)
      sq == Dot(a, a) * Dot(b, b)
  IN IF sq = 0 THEN [dot |-> 0, sq |-> 1] ELSE [dot |-> dot, sq |-> sq]

\* x.dot / sqrt(x.sq) > y.dot / sqrt(y.sq)
Greater(x, y) ==
  IF x.dot >= 0
  THEN IF y.dot < 0 THEN TRUE ELSE x.dot * x.dot * y.sq > y.dot * y.dot * x.sq
  ELSE IF y.dot >= 0 THEN FALSE ELSE x.dot * x.dot * y.sq < y.dot * y.dot * x.sq

\* similarities[index] of search: 0 for a chunk past the end of the embeddings.
Similarity(queryEmbedding, embs, index) ==
  IF index > Len(embs) THEN [dot |-> 0, sq |-> 1]
  ELSE cosineSimilarity(queryEmbedding, embs[index].v)

RECURSIVE InsertBySimilarity(_, _)
\* Array.prototype.sort((a, b) => b.similarity - a.similarity) is stable: x goes
\* behind every entry that is not less similar.
InsertBySimilarity(sorted, x) ==
  IF sorted = <<>> THEN <<x>>
  ELSE IF Greater(x.similarity, sorted[1].similarity) THEN <<x>> \o sorted
       ELSE <<sorted[1]>> \o InsertBySimilarity(Tail(sorted), x)

RECURSIVE SortBySimilarity(_, _)
SortBySimilarity(similarities, sorted) ==
  IF similarities = <<>> THEN sorted
  ELSE SortBySimilarity(Tail(similarities),
                        InsertBySimilarity(sorted, similarities[1]))

\* RAGSearchService.search(query, queryEmbedding, chunks, embeddings, topK)
search(queryEmbedding, cs, embs, topK) ==
  IF Len(embs) = 0 \/ Len(cs) = 0 THEN <<>>
  ELSE IF Len(queryEmbedding) = 0 THEN <<>>
  ELSE LET similarities ==
             [index \in 1..Len(cs) |->
                [chunk |-> cs[index],
                 similarity |-> Similarity(queryEmbedding, embs, index)]]
       IN Slice(SortBySimilarity(similarities, <<>>), 0, topK)

\* The text `[From: ${fileName}]\n${content}` of one result, behind "\n\n" when
\* the context is not empty: the returned string is kept as its pieces.
Piece(result, context) ==
  [sep |-> context # <<>>, fileName |-> result.chunk.fileName,
   of |-> result.chunk.id, len |-> result.chunk.len]

\* string.length of a piece and of a context
PieceLen(p) ==
  (IF p.sep THEN 2 ELSE 0) + 7 + Len(p.fileName) + 2 + p.len

RECURSIVE StrLen(_)
StrLen(context) ==
  IF context = <<>> THEN 0 ELSE PieceLen(context[1]) + StrLen(Tail(context))

RECURSIVE ContextLoop_Continue(_, _, _, _)
\* A loop that passes over a result that does not fit and goes on to the next.
ContextLoop_Continue(results, maxLength, context, currentLength) ==
  IF results = <<>> THEN context
  ELSE IF currentLength + results[1].chunk.len > maxLength
  THEN ContextLoop_Continue(Tail(results), maxLength, context, currentLength)
  ELSE ContextLoop_Continue(Tail(results), maxLength,
                            Append(context, Piece(results[1], context)),
                            currentLength + results[1].chunk.len)

\* The loop `for (const result of results)` of getContext, with currentLength
\* characters of content taken into context so far.
RECURSIVE ContextLoop(_, _, _, _)
ContextLoop(results, maxLength, context, currentLength) ==
  IF results = <<>> THEN context
  ELSE IF currentLength + results[1].chunk.len > maxLength THEN context
  ELSE ContextLoop(Tail(results), maxLength,
                   Append(context, Piece(results[1], context)),
                   currentLength + results[1].chunk.len)

\* RAGSearchService.getContext(query, queryEmbedding, chunks, embeddings, maxLength)
searchGetContext(queryEmbedding, cs, embs, maxLength) ==
  LET results == search(queryEmbedding, cs, embs, ContextTopK)
  IN IF Len(results) = 0 THEN <<>>
     ELSE ContextLoop(results, maxLength, <<>>, 0)

\* GoogleRAGService.getContext(query, maxLength): "" for an empty query and when
\* embedContent(query) throws.
getContextValue(query, maxLength) ==
  IF query.kind = "empty" THEN <<>>
  ELSE IF query.kind = "throws" THEN <<>>
  ELSE searchGetContext(query.embedding, chunks, embeddings, maxLength)

\* The queries a caller sends: an empty string, a text the provider embeds, a
\* text for which it returns no values, a text on which it throws.
Queries ==
  { [kind |-> "empty", embedding |-> <<>>],
    [kind |-> "text", embedding |-> <<1, 0>>],
    [kind |-> "text", embedding |-> <<>>],
    [kind |-> "throws", embedding |-> <<>>] }

MaxLengths == {0, 100, 900, 3000}

getContext(query, maxLength) ==
  /\ cPhase = "input"
  /\ cQuery' = query
  /\ cMaxLength' = maxLength
  /\ cResult' = getContextValue(query, maxLength)
  /\ cPhase' = "returned"
  /\ UNCHANGED <<service, chunkCall, lexCall, searchCall, page>>

\* The chunks a persistence store can hold from earlier runs, with the vector
\* the provider gave each of them.
CorpusKinds ==
  { [fileId |-> 1, fileName |-> "a.txt", len |-> 100, v |-> <<1, 0>>],
    [fileId |-> 1, fileName |-> "a.txt", len |-> 800, v |-> <<-1, 1>>],
    [fileId |-> 2, fileName |-> "notes.md", len |-> 800, v |-> <<1, 1>>],
    [fileId |-> 2, fileName |-> "notes.md", len |-> 100, v |-> <<0, 0>>] }

CorpusChunk(k, kind) ==
  [id |-> <<kind.fileId, k>>, fileId |-> kind.fileId, fileName |-> kind.fileName,
   len |-> kind.len, startIndex |-> 0, endIndex |-> kind.len]

\* A service created over a store that holds a corpus: chunks and embeddings
\* are read from the persistence singleton; the last embedding may be missing.
InitContext ==
  /\ \E n \in 0..MaxCorpus : \E kinds \in [1..n -> CorpusKinds] :
       \E m \in {n, n - 1} \cap 0..n :
         /\ dataChunks = [k \in 1..n |-> CorpusChunk(k, kinds[k])]
         /\ dataEmbeddings =
              [k \in 1..m |-> [of |-> <<kinds[k].fileId, k>>, kind |-> "vec",
                               v |-> kinds[k].v]]
  /\ chunks = dataChunks
  /\ embeddings = dataEmbeddings
  /\ NoCall
  /\ ContextIdle
  /\ ChunkIdle
  /\ LexIdle
  /\ SearchIdle
  /\ PageIdle

NextContext ==
  \E query \in Queries, maxLength \in MaxLengths : getContext(query, maxLength)

SpecContext == InitContext /\ [][NextContext]_vars

\* ------------------------------------------------------------------ chunkText
\* A text here is its length, the positions (0-based) of its '.' characters
\* and the number of characters in front of its trailing spaces; every other
\* character is a letter, so '?', '!' and newline are never found.  The
\* texts are those of letters and '.', and those of no letter or one letter
\* with spaces behind.
DotPositions == {0, 720, 860}
TextLengths == {0, 30, 100, 1000, 2000}
Texts ==
  { t \in [len : TextLengths, dots : SUBSET DotPositions,
           letters : {0, 1} \cup TextLengths] :
      /\ t.letters \in {0, 1, t.len}
      /\ t.letters <= t.len
      /\ \A p \in t.dots : p < t.len
      /\ t.letters < t.len => t.dots = {} }

\* The options a caller of chunkText passes; the first is the default.
ChunkingOptions ==
  { [chunkSize |-> 800, overlap |-> 150],
    [chunkSize |-> 60, overlap |-> 10],
    [chunkSize |-> 10, overlap |-> 0],
    [chunkSize |-> 10, overlap |-> 10],
    [chunkSize |-> 0, overlap |-> 0] }

Max(a, b) == IF a > b THEN a ELSE b

\* text.indexOf(".", from): a negative from searches from 0.
indexOfDot(text, from) ==
  LET found == {p \in text.dots : p >= from}
  IN IF found = {} THEN -1
     ELSE CHOOSE p \in found : \A q \in found : p <= q

\* A boundary search that starts 1000 characters in front of endIndex.
ActualEndIndex_FromFarBehind(text, startIndex, size) ==
  LET endIndex == Min(startIndex + size, text.len)
      nextPeriod == indexOfDot(text, endIndex - 1000)
  IN IF endIndex < text.len /\ nextPeriod # -1 /\ nextPeriod < endIndex + 100
     THEN nextPeriod + 1
     ELSE endIndex

\* actualEndIndex of one turn of the loop.
ActualEndIndex(text, startIndex, size) ==
  LET endIndex == Min(startIndex + size, text.len)
      nextPeriod == indexOfDot(text, endIndex - 100)
  IN IF endIndex < text.len /\ nextPeriod # -1 /\ nextPeriod < endIndex + 100
     THEN nextPeriod + 1
     ELSE endIndex

\* text.slice(from, to).trim().length: a negative index counts from the end,
\* and trim() takes the spaces behind the last letter of the slice away.
SliceLength(text, from, to) ==
  LET Pos(i) == IF i < 0 THEN Max(text.len + i, 0) ELSE Min(i, text.len)
  IN Max(Min(Pos(to), text.letters) - Pos(from), 0)

\* A push of every window whose trimmed content is not empty.
PushChunk_NoNoiseFilter(cs, text, startIndex, actualEndIndex) ==
  LET contentLen == SliceLength(text, startIndex, actualEndIndex)
  IN IF contentLen > 0
     THEN Append(cs, [id |-> <<1, startIndex>>, fileId |-> 1,
                      fileName |-> "a.txt", len |-> contentLen,
                      startIndex |-> startIndex, endIndex |-> actualEndIndex])
     ELSE cs

\* chunks after `if (chunkContent.length > 50) chunks.push({...})`
PushChunk(cs, text, startIndex, actualEndIndex) ==
  LET contentLen == SliceLength(text, startIndex, actualEndIndex)
  IN IF contentLen > 50
     THEN Append(cs, [id |-> <<1, startIndex>>, fileId |-> 1,
                      fileName |-> "a.txt", len |-> contentLen,
                      startIndex |-> startIndex, endIndex |-> actualEndIndex])
     ELSE cs

\* maxIterations of the call in progress
MaxIterations ==
  CeilDiv(kText.len, kOptions.chunkSize - kOptions.overlap) + 100

\* chunkText(text, fileId, fileName, options) up to the head of its loop: an
\* empty text and invalid options return [], an overlap that is not below
\* chunkSize is replaced by a fifth of chunkSize.  The chunker of
\* components/ragUi takes the options as they are.
chunkTextCall(variant, text, options) ==
  LET rejected == text.len = 0
                  \/ text.letters = 0
                  \/ (variant = "lib"
                      /\ (options.chunkSize <= 0 \/ options.overlap < 0))
      adjusted == IF variant = "lib" /\ options.overlap >= options.chunkSize
                  THEN [options EXCEPT !.overlap = (options.chunkSize * 2) \div 10]
                  ELSE options
  IN /\ kPc = "input"
     /\ kVariant' = variant
     /\ kText' = text
     /\ kOptions' = adjusted
     /\ kStartIndex' = 0
     /\ kIterationCount' = 0
     /\ kChunks' = <<>>
     /\ kPc' = IF rejected THEN "returned" ELSE "loop"
     /\ UNCHANGED <<service, contextCall, lexCall, searchCall, page>>

\* A loop that is left only when the text is used up.
LoopGoesOn_NoCeiling(startIndex, iterationCount) ==
  startIndex < kText.len

\* The head of `while (startIndex < text.length && iterationCount < maxIterations)`
LoopGoesOn(startIndex, iterationCount) ==
  startIndex < kText.len /\ iterationCount < MaxIterations

\* A turn that always steps back by the overlap, with no forced advance when
\* that makes no progress.
chunkTextIteration_NoForcedAdvance ==
  /\ kPc = "loop"
  /\ kVariant = "lib"
  /\ LET actualEndIndex ==
           ActualEndIndex(kText, kStartIndex, kOptions.chunkSize)
         next == actualEndIndex - kOptions.overlap
     IN /\ kIterationCount' = kIterationCount + 1
        /\ kChunks' = PushChunk(kChunks, kText, kStartIndex, actualEndIndex)
        /\ kStartIndex' = next
        /\ kPc' = IF next >= kText.len THEN "returned"
                  ELSE IF LoopGoesOn(next, kIterationCount + 1) THEN "loop"
                  ELSE "returned"
  /\ UNCHANGED <<kVariant, kText, kOptions, service, contextCall, lexCall,
                 searchCall, page>>

\* One turn of the loop of chunkText in lib/text-chunker (and of
\* processFileInBatches, whose options are the default ones), from the loop
\* head to the next loop head or to the return.
chunkTextIteration ==
  /\ kPc = "loop"
  /\ kVariant = "lib"
  /\ LET actualEndIndex ==
           ActualEndIndex(kText, kStartIndex, kOptions.chunkSize)
         newStartIndex == actualEndIndex - kOptions.overlap
         next == IF newStartIndex <= kStartIndex THEN actualEndIndex
                 ELSE newStartIndex
     IN /\ kIterationCount' = kIterationCount + 1
        /\ kChunks' = PushChunk(kChunks, kText, kStartIndex, actualEndIndex)
        /\ kStartIndex' = next
        /\ kPc' = IF next >= kText.len THEN "returned"
                  ELSE IF LoopGoesOn(next, kIterationCount + 1) THEN "loop"
                  ELSE "returned"
  /\ UNCHANGED <<kVariant, kText, kOptions, service, contextCall, lexCall,
                 searchCall, page>>

\* The head of `while (startIndex < text.length)` of chunkText in
\* components/ragUi/text-chunker.ts.
uiChunkTextLoopHead ==
  /\ kPc = "loop"
  /\ kVariant = "ragUi"
  /\ kPc' = IF kStartIndex < kText.len THEN "body" ELSE "returned"
  /\ UNCHANGED <<kVariant, kText, kOptions, kStartIndex, kIterationCount,
                 kChunks, service, contextCall, lexCall, searchCall, page>>

\* The body of that loop: startIndex = actualEndIndex - overlap, and a break
\* when startIndex has reached the end of the text.
uiChunkTextIteration ==
  /\ kPc = "body"
  /\ kVariant = "ragUi"
  /\ LET actualEndIndex ==
           ActualEndIndex(kText, kStartIndex, kOptions.chunkSize)
         next == actualEndIndex - kOptions.overlap
     IN /\ kChunks' = PushChunk(kChunks, kText, kStartIndex, actualEndIndex)
        /\ kStartIndex' = next
        /\ kPc' = IF next >= kText.len THEN "returned" ELSE "loop"
  /\ UNCHANGED <<kVariant, kText, kOptions, kIterationCount, service,
                 contextCall, lexCall, searchCall, page>>

\* The texts on which the ragUi loop comes back to a state it has been in: on
\* any other non-empty text its last window holds more than 50 characters and
\* every turn pushes one more chunk.
UiTexts ==
  { t \in Texts : /\ t.letters = t.len
                  /\ t.len <= 50 \/ (t.len >= 100 /\ t.len < 150) }

NextChunk ==
  \/ \E text \in Texts, options \in ChunkingOptions :
       chunkTextCall("lib", text, options)
  \/ \E text \in UiTexts :
       chunkTextCall("ragUi", text, [chunkSize |-> chunkSize, overlap |-> overlap])
  \/ chunkTextIteration
  \/ uiChunkTextLoopHead
  \/ uiChunkTextIteration

\* chunkText is synchronous: a call that can take a turn takes it.
SpecChunk == Init /\ [][NextChunk]_vars /\ WF_vars(NextChunk)

\* ------------------------------------------- chunkText on the largest document
\* The positions first, first + step, ... below len.
PeriodicDots(len, first, step) ==
  { first + step * k : k \in 0..((len - 1 - first) \div step) }

\* Documents of MAX_FILE_SIZE characters, the largest the file manager takes:
\* one of letters only, and one of letters with a '.' at 700 and at every
\* 551st position behind it, which is where each window of the default
\* configuration starts its search for a boundary.
LongTexts ==
  { [len |-> MAX_FILE_SIZE, dots |-> d, letters |-> MAX_FILE_SIZE] :
      d \in { {}, PeriodicDots(MAX_FILE_SIZE, chunkSize - 100,
                               chunkSize - 99 - overlap) } }

NextLong ==
  \/ \E text \in LongTexts :
       chunkTextCall("lib", text, [chunkSize |-> chunkSize, overlap |-> overlap])
  \/ chunkTextIteration

SpecLong == Init /\ [][NextLong]_vars

\* -------------------------------------------------------------- lexical search
\* A word is the sequence of its characters.  A query is its whitespace-
\* separated words, with or without whitespace around them; a chunk's content
\* is its words, single spaces between them, and `filler` more letters (a word
\* of 'z's) behind them.
QueryWords ==
  { <<"c", "a", "t">>, <<"C", "a", "t", "s">>, <<"t", "o">>, <<"i", "n", "g">>,
    <<"c", "+", "+">>, <<"(", "a", "b">>, <<"d", "o", "g">>,
    <<"c", ".", "t">> }

Contents ==
  { [words |-> << <<"c", "a", "t">> >>, filler |-> 0],
    [words |-> << <<"C", "a", "t", "s">>, <<"d", "o", "g">> >>, filler |-> 0],
    [words |-> << <<"d", "o", "g">> >>, filler |-> 250] }

\* String.prototype.toLowerCase, character by character
LowerChar(ch) == IF ch = "C" THEN "c" ELSE ch
toLowerCase(word) == [i \in 1..Len(word) |-> LowerChar(word[i])]

\* haystack.includes(needle) within one word, and needle as the start of it
Includes(word, needle) ==
  \E i \in 0..(Len(word) - Len(needle)) :
    SubSeq(word, i + 1, i + Len(needle)) = needle
StartsWith(word, needle) ==
  Len(needle) <= Len(word) /\ SubSeq(word, 1, Len(needle)) = needle

\* word.replace(/ing$|ed$|s$/, "")
EndsWith(word, suffix) ==
  Len(suffix) <= Len(word)
  /\ SubSeq(word, Len(word) - Len(suffix) + 1, Len(word)) = suffix
Strip(word, n) == SubSeq(word, 1, Len(word) - n)
Stem(word) ==
  IF EndsWith(word, <<"i", "n", "g">>) THEN Strip(word, 3)
  ELSE IF EndsWith(word, <<"e", "d">>) THEN Strip(word, 2)
  ELSE IF EndsWith(word, <<"s">>) THEN Strip(word, 1)
  ELSE word

\* new RegExp(`\\b${word}\\b`, "g") throws a SyntaxError: among letters, '('
\* and '+', a '(' is never closed, and a '+' behind \b or behind another '+'
\* has nothing to repeat.
RegExpThrows(word) ==
  \E i \in 1..Len(word) :
    \/ word[i] = "("
    \/ word[i] = "+" /\ (i = 1 \/ word[i - 1] = "+")

\* chunk.content.length and the words of chunk.content.toLowerCase()
ContentLength(content) ==
  LET n == Len(content.words)
      RECURSIVE Sum(_)
      Sum(k) == IF k = 0 THEN 0 ELSE Len(content.words[k]) + Sum(k - 1)
  IN Sum(n) + (n - 1) + (IF content.filler > 0 THEN 1 + content.filler ELSE 0)
LowerWords(content) ==
  [k \in 1..Len(content.words) |-> toLowerCase(content.words[k])]

\* A query word is put into its RegExp as it is: a '.' in it matches any
\* character, a letter itself.  `\b${word}\b` matches a word of the content
\* as a whole and `\b${stemmedWord}` the start of one; no content of Contents
\* has a match that runs over the space between two words.
MatchChar(p, ch) == p = "." \/ p = ch
PatternPrefix(word, pattern) ==
  /\ Len(pattern) <= Len(word)
  /\ \A i \in 1..Len(pattern) : MatchChar(pattern[i], word[i])
PatternEq(word, pattern) ==
  Len(pattern) = Len(word) /\ PatternPrefix(word, pattern)

\* Ten times the score of one chunk for the query words (letters and '.').
Score(content, queryWords) ==
  LET chunkLower == LowerWords(content)
      Count(P(_)) == Cardinality({k \in 1..Len(chunkLower) : P(chunkLower[k])})
      includes(needle) == needle = <<>> \/ \E k \in 1..Len(chunkLower) :
                                              Includes(chunkLower[k], needle)
      WordScore(word) ==
        LET exactMatches == Count(LAMBDA w : PatternEq(w, word))
            stemmedWord == Stem(word)
            stemmedMatches == Count(LAMBDA w : PatternPrefix(w, stemmedWord))
        IN exactMatches * 30
           + (IF includes(word) THEN 10 ELSE 0)
           + (IF Len(stemmedWord) > 2 THEN stemmedMatches * 15 ELSE 0)
      RECURSIVE Total(_)
      Total(k) == IF k = 0 THEN 0 ELSE WordScore(queryWords[k]) + Total(k - 1)
      uniqueMatches ==
        Cardinality({k \in 1..Len(queryWords) :
                       includes(queryWords[k]) \/ includes(Stem(queryWords[k]))})
  IN Total(Len(queryWords)) + uniqueMatches * 5
     + (IF ContentLength(content) > 200 THEN 2 ELSE 0)

RECURSIVE InsertByScore_BeforeEquals(_, _)
\* A sort that puts an entry in front of the entries of the same score.
InsertByScore_BeforeEquals(sorted, x) ==
  IF sorted = <<>> THEN <<x>>
  ELSE IF x.score >= sorted[1].score THEN <<x>> \o sorted
       ELSE <<sorted[1]>> \o InsertByScore_BeforeEquals(Tail(sorted), x)

RECURSIVE InsertByScore(_, _)
\* results.sort((a, b) => b.score - a.score), which is stable
InsertByScore(sorted, x) ==
  IF sorted = <<>> THEN <<x>>
  ELSE IF x.score > sorted[1].score THEN <<x>> \o sorted
       ELSE <<sorted[1]>> \o InsertByScore(Tail(sorted), x)

RECURSIVE SortByScore(_, _)
SortByScore(results, sorted) ==
  IF results = <<>> THEN sorted
  ELSE SortByScore(Tail(results), InsertByScore(sorted, results[1]))

\* A search that keeps the chunks of score 0 among its results.
lexicalSearch_KeepsZeroScores(cs, query, topK) ==
  LET queryLower == [k \in 1..Len(query.words) |-> toLowerCase(query.words[k])]
      queryWords == SelectSeq(queryLower, LAMBDA word : Len(word) > 2)
      results == [k \in 1..Len(cs) |->
                    [chunk |-> k, score |-> Score(cs[k], queryWords)]]
  IN IF Len(cs) = 0 THEN [threw |-> FALSE, results |-> <<>>]
     ELSE IF Len(query.words) = 0 THEN [threw |-> FALSE, results |-> <<>>]
     ELSE IF Len(queryWords) = 0 THEN [threw |-> FALSE, results |-> <<>>]
     ELSE IF \E k \in 1..Len(queryWords) : RegExpThrows(queryWords[k])
          THEN [threw |-> TRUE, results |-> <<>>]
          ELSE [threw |-> FALSE,
                results |-> Slice(SortByScore(results, <<>>), 0, topK)]

\* createSearchEngine().search(chunks, query, { topK }): what it returns, or
\* that it throws.
lexicalSearch(cs, query, topK) ==
  LET queryLower == [k \in 1..Len(query.words) |-> toLowerCase(query.words[k])]
      queryWords == SelectSeq(queryLower, LAMBDA word : Len(word) > 2)
      scored == [k \in 1..Len(cs) |->
                   [chunk |-> k, score |-> Score(cs[k], queryWords)]]
      results == SelectSeq(scored, LAMBDA r : r.score > 0)
  IN IF Len(cs) = 0 THEN [threw |-> FALSE, results |-> <<>>]
     ELSE IF Len(query.words) = 0 THEN [threw |-> FALSE, results |-> <<>>]
     ELSE IF Len(queryWords) = 0 THEN [threw |-> FALSE, results |-> <<>>]
     ELSE IF \E k \in 1..Len(queryWords) : RegExpThrows(queryWords[k])
          THEN [threw |-> TRUE, results |-> <<>>]
          ELSE [threw |-> FALSE,
                results |-> Slice(SortByScore(results, <<>>), 0, topK)]

\* RAGService.search(query, topK) of components/ragUi: the engine's result, or
\* its exception, as it is.
lexSearch(cs, query, topK) ==
  LET out == lexicalSearch(cs, query, topK)
  IN /\ lPc = "input"
     /\ lChunks' = cs
     /\ lQuery' = query
     /\ lTopK' = topK
     /\ lResult' = out.results
     /\ lPc' = IF out.threw THEN "threw" ELSE "returned"
     /\ UNCHANGED <<service, contextCall, chunkCall, searchCall, page>>

MaxQueryWords == 2
MaxLexChunks == 2

NextLex ==
  /\ lPc = "input"
  /\ \E n \in 0..MaxLexChunks, m \in 0..MaxQueryWords :
       \E cs \in [1..n -> Contents], words \in [1..m -> QueryWords],
          padded \in BOOLEAN, topK \in {1, 5} :
         lexSearch(cs, [padded |-> padded, words |-> words], topK)

SpecLex == Init /\ [][NextLex]_vars

\* ------------------------------------------------- search calls on a corpus
\* Chunks of the corpus the service holds when a search call is followed.
MaxSearchCorpus == 3

\* A search that sorts the service's own chunk array by similarity, in place.
serviceSearch_SortsInPlace(query, topK) ==
  /\ sPc = "input"
  /\ sQuery' = query
  /\ sTopK' = topK
  /\ sResult' = search(query.embedding, chunks, embeddings, topK)
  /\ sPc' = "returned"
  /\ LET ranked == search(query.embedding, chunks, embeddings, Len(chunks))
     IN chunks' = IF ranked = <<>> THEN chunks
                  ELSE [k \in 1..Len(chunks) |-> ranked[k].chunk]
  /\ UNCHANGED <<fileObj, files, fmChunks, dataFiles, dataChunks, dataEmbeddings,
                 embeddings, pc, runs, fi, fj, elapsed, deadlineHit,
                 allEmbeddings, bi, emTexts, emOut, emI, emElapsed,
                 contextCall, chunkCall, lexCall, page>>

\* GoogleRAGService.search(query, topK): [] without a corpus and when
\* embedContent(query) throws, or what RAGSearchService.search returns.
serviceSearch(query, topK) ==
  /\ sPc = "input"
  /\ sQuery' = query
  /\ sTopK' = topK
  /\ sResult' = IF Len(embeddings) = 0 \/ Len(chunks) = 0 THEN <<>>
                ELSE IF query.kind = "throws" THEN <<>>
                ELSE search(query.embedding, chunks, embeddings, topK)
  /\ sPc' = "returned"
  /\ UNCHANGED <<service, contextCall, chunkCall, lexCall, page>>

\* The queries of Queries and one whose embedding is the zero vector.
SearchQueries == Queries \cup {[kind |-> "text", embedding |-> <<0, 0>>]}

\* The queries sent to the lexical search of components/ragUi.
LexQueries ==
  { [padded |-> FALSE, words |-> <<>>],
    [padded |-> FALSE, words |-> << <<"c", "a", "t">> >>],
    [padded |-> TRUE, words |-> << <<"C", "a", "t", "s">>, <<"t", "o">> >>] }

\* Two documents are registered and indexed; the Google service holds a corpus
\* read from the persistence store (the last embedding may be missing), or the
\* service of components/ragUi holds a chunk list.
InitSearch ==
  /\ fileObj = [id \in 1..2 |->
                  [NewFile(id, [chars |-> 1000, error |-> "none"])
                     EXCEPT !.indexed = TRUE]]
  /\ files = <<1, 2>>
  /\ dataFiles = <<1, 2>>
  /\ \/ /\ \E n \in 0..MaxSearchCorpus : \E kinds \in [1..n -> CorpusKinds] :
              \E m \in {n, n - 1} \cap 0..n :
                /\ dataChunks = [k \in 1..n |-> CorpusChunk(k, kinds[k])]
                /\ dataEmbeddings =
                     [k \in 1..m |-> [of |-> <<kinds[k].fileId, k>>,
                                      kind |-> "vec", v |-> kinds[k].v]]
        /\ lChunks = <<>>
     \/ /\ dataChunks = <<>>
        /\ dataEmbeddings = <<>>
        /\ \E n \in 1..MaxLexChunks : lChunks \in [1..n -> Contents]
  /\ chunks = dataChunks
  /\ embeddings = dataEmbeddings
  /\ NoRun
  /\ ContextIdle
  /\ ChunkIdle
  /\ lQuery = [padded |-> FALSE, words |-> <<>>]
  /\ lTopK = 5
  /\ lResult = <<>>
  /\ lPc = "input"
  /\ SearchIdle
  /\ PageIdle

\* One call is followed.
NoCallYet == cPhase = "input" /\ sPc = "input" /\ lPc = "input"

NextSearch ==
  \/ /\ NoCallYet
     /\ \E query \in SearchQueries, maxLength \in MaxLengths :
          getContext(query, maxLength)
  \/ /\ NoCallYet
     /\ \E query \in SearchQueries, topK \in {1, 5} :
          query.kind # "empty" /\ serviceSearch(query, topK)
  \/ /\ NoCallYet
     /\ \E query \in LexQueries, topK \in {1, 5} :
          lexSearch(lChunks, query, topK)

SpecSearch == InitSearch /\ [][NextSearch]_vars

\* ================================================================= properties
\* embs[i] is the embedding of cs[i], for every i.
Aligned(cs, embs) ==
  /\ Len(cs) = Len(embs)
  /\ \A i \in 1..Len(cs) : embs[i].of = cs[i].id

\* A batch the total character ceiling of the service or of the file manager
\* turns away.
ExceedsCeiling(batch) ==
  LET n == Len(fileObj)
      heap == fileObj \o [k \in 1..Len(batch) |-> NewFile(n + k, batch[k])]
      newFiles == [k \in 1..Len(batch) |-> n + k]
  IN \/ SumLen(chunks) + SumChars(heap, newFiles) > GOOGLE_TOTAL_CHARS
     \/ SumChars(heap, files) + SumChars(heap, ValidIds(heap, newFiles))
          > MAX_TOTAL_CHARS

\* C1: removeFile(d), called with every embedding at the index of its chunk,
\* removes exactly the chunks of document d and leaves every remaining chunk
\* paired, at its new index, with the embedding it had before the call.
C1_RemoveFileKeepsPairs ==
  [][\A d \in 1..MaxFiles :
       (Aligned(chunks, embeddings) /\ removeFile(d)) =>
         /\ chunks' = SelectSeq(chunks, LAMBDA c : c.fileId # d)
         /\ Aligned(chunks', embeddings')]_vars

\* C2: when indexFiles() has returned without throwing, the chunk list and the
\* embedding list have the same length.
C2_ReturnedListsSameLength ==
  pc = "done" => Len(chunks) = Len(embeddings)

\* C3: at every await of indexFiles(), where a search, getContext,
\* isRAGAvailable or getStats call can run, the chunk list and the embedding
\* list have the same length.
C3_SuspendedListsSameLength ==
  Suspended => Len(chunks) = Len(embeddings)

\* C4: when indexFiles() has thrown, the chunk list and the embedding list are
\* empty in the service and in the persistence store.
C4_FailedRunLeavesCorpusEmpty ==
  pc = "failed" =>
    /\ chunks = <<>> /\ embeddings = <<>>
    /\ dataChunks = <<>> /\ dataEmbeddings = <<>>

\* A run has thrown on its deadline after the file manager had produced chunks.
C4_FailedAfterChunking ==
  pc = "failed" /\ deadlineHit /\ fmChunks # <<>>

\* C5: indexFiles() never returns normally once one of its deadline checks, at a
\* document-batch boundary or at an embedding sub-batch boundary, has found the
\* deadline exceeded.
C5_NoReturnAfterDeadline ==
  pc = "done" => ~deadlineHit

\* C6: at every embedding sub-batch boundary, each vector collected so far
\* stands at the index of the chunk it was computed from, whatever happened to
\* the sub-batches before.
C6_LaterBatchesStayAligned ==
  pc = "embedBatch" =>
    \A k \in 1..Len(allEmbeddings) :
      k <= Len(chunks) /\ allEmbeddings[k].of = chunks[k].id

\* C7: embedMultiple(texts) returns one vector per text, the i-th one (the
\* provider's or a fallback) for texts[i].
C7_OneVectorPerText ==
  pc = "embedReturned" =>
    /\ Len(emOut) = Len(emTexts)
    /\ \A i \in 1..Len(emOut) : emOut[i].of = emTexts[i]

\* C8: an addFiles(batch) call turned away by a total character ceiling leaves
\* the file manager's list, the persisted list, the chunk list and the
\* embedding list as they were.
C8_RejectedBatchChangesNothing ==
  [][\A batch \in Batches(MaxFiles + 1) :
       (ExceedsCeiling(batch) /\ addFiles(batch)) =>
         UNCHANGED <<files, dataFiles, chunks, embeddings>>]_vars

\* The whole ranking of the corpus for the query of the last getContext call.
Ranking == search(cQuery.embedding, chunks, embeddings, Len(chunks))

RECURSIVE ContentSum(_, _)
\* The characters of content in the first k results.
ContentSum(results, k) ==
  IF k = 0 THEN 0 ELSE results[k].chunk.len + ContentSum(results, k - 1)

\* '[From: fileName]' and the complete content of each of the first k results,
\* blank lines between them.
FirstResults(results, k) ==
  [j \in 1..k |-> [sep |-> j > 1, fileName |-> results[j].chunk.fileName,
                   of |-> results[j].chunk.id, len |-> results[j].chunk.len]]

\* C9: the string getContext returns, headers and separators included, is at
\* most maxLength characters long.
C9_ContextWithinMaxLength ==
  cPhase = "returned" => StrLen(cResult) <= cMaxLength

\* C10: getContext returns the headers and complete contents of the first k of
\* the six best-ranked results, in ranked order, where the k+1-st is the first
\* whose content does not fit into maxLength after the contents before it; it
\* returns the empty string when nothing is ranked or the best result does not fit.
C10_ContextIsRankedPrefix ==
  cPhase = "returned" =>
    IF cQuery.kind # "text" THEN cResult = <<>>
    ELSE LET ranked == Ranking
             breadth == Min(6, Len(ranked))
             k == Len(cResult)
         IN /\ k <= breadth
            /\ cResult = FirstResults(ranked, k)
            /\ ContentSum(ranked, k) <= cMaxLength
            /\ k < breadth => ContentSum(ranked, k + 1) > cMaxLength

\* getContext has returned some results and stopped at one that does not fit,
\* although the result ranked behind that one would still have fitted.
C10_StoppedBeforeFittingResult ==
  /\ cPhase = "returned"
  /\ cQuery.kind = "text"
  /\ cResult # <<>>
  /\ Len(cResult) + 2 <= Min(6, Len(Ranking))
  /\ ContentSum(Ranking, Len(cResult)) + Ranking[Len(cResult) + 2].chunk.len
       <= cMaxLength

\* The ids in a list of documents, and the chunks of one document in a list.
Ids(list) == {list[k] : k \in 1..Len(list)}
ChunksOf(cs, d) == SelectSeq(cs, LAMBDA c : c.fileId = d)

\* C15: clear() leaves no document, no chunk and no embedding, in the service,
\* in the file manager and in the persistence store getFiles() and getStats()
\* read from.
C15_ClearEmptiesEverything ==
  [][clear =>
       /\ dataFiles' = <<>> /\ files' = <<>>
       /\ chunks' = <<>> /\ embeddings' = <<>>
       /\ dataChunks' = <<>> /\ dataEmbeddings' = <<>>]_vars

\* C16: after removeFile(d), document d is in neither the file manager's list
\* nor the list getFiles() returns, and no chunk of d is in the chunk list.
C16_RemovedDocumentIsGone ==
  [][\A d \in 1..MaxFiles :
       removeFile(d) =>
         /\ d \notin Ids(files') /\ d \notin Ids(dataFiles')
         /\ ChunksOf(chunks', d) = <<>>]_vars

\* C17: removeFile(d), for a document that exists or not, called with as many
\* embeddings as chunks leaves as many embeddings as chunks, in the service
\* and in the store; so does RAGPersistenceService.removeFile on the store.
C17_RemoveFileKeepsLengthsEqual ==
  [][\A d \in 1..MaxFiles :
       /\ (removeFile(d) /\ Len(chunks) = Len(embeddings)) =>
            /\ Len(chunks') = Len(embeddings')
            /\ Len(dataChunks') = Len(dataEmbeddings')
       /\ Len(dataChunks) = Len(dataEmbeddings) =>
            LET after == persistenceRemoveFile(
                           [files |-> dataFiles, chunks |-> dataChunks,
                            embeddings |-> dataEmbeddings], d)
            IN Len(after.chunks) = Len(after.embeddings)]_vars

\* A document that was indexed has been removed while the chunks and embeddings
\* of another one, equally many, are left.
C17_RemovedOneOfTwoIndexed ==
  /\ pc = "idle"
  /\ chunks # <<>>
  /\ Len(chunks) = Len(embeddings)
  /\ \E d \in 1..Len(fileObj) : fileObj[d].indexed /\ d \notin Ids(files)

\* C18: when indexFiles() has returned, the embedding list holds at most
\* MAX_EMBEDDINGS_IN_MEMORY vectors.
C18_EmbeddingsWithinCeiling ==
  pc = "done" => Len(embeddings) <= MAX_EMBEDDINGS_IN_MEMORY

\* C19: when indexFiles() has returned, every document of the registry has
\* either all the chunks the chunker made of it in the chunk list, or none.
C19_NoPartiallyChunkedDocument ==
  pc = "done" =>
    \A d \in Ids(files) :
      \/ ChunksOf(chunks, d) = <<>>
      \/ ChunksOf(chunks, d) = processFileInBatches(fileObj[d])

\* C20: after addFiles(batch), no document of the batch with an error flag or
\* with empty content is in the list getFiles() returns.
C20_InvalidDocumentsNotRegistered ==
  [][\A batch \in Batches(MaxFiles) :
       addFiles(batch) =>
         \A k \in 1..Len(batch) :
           ~IsValid(NewFile(Len(fileObj) + k, batch[k])) =>
             Len(fileObj) + k \notin Ids(dataFiles')]_vars

\* C11: with chunkSize > 0 and 0 <= overlap < chunkSize, chunkText takes at
\* most ceil(len(text) / (chunkSize - overlap)) + 100 turns of its loop: it is
\* never at the loop head with that many turns taken, and what it returns is
\* the chunk list as accumulated.
C11_ChunkTextWithinIterationCeiling ==
  (/\ kVariant = "lib" /\ kPc # "input"
   /\ kOptions.chunkSize > 0
   /\ 0 <= kOptions.overlap /\ kOptions.overlap < kOptions.chunkSize) =>
    /\ kIterationCount <= MaxIterations
    /\ kPc = "loop" => kIterationCount < MaxIterations

\* chunkText has returned at the iteration ceiling, text still left, with the
\* chunks it had pushed before it stopped advancing.
C11_ReturnedAtCeilingWithChunks ==
  /\ kVariant = "lib"
  /\ kPc = "returned"
  /\ kOptions.chunkSize > kOptions.overlap
  /\ kIterationCount = MaxIterations
  /\ kStartIndex < kText.len
  /\ kChunks # <<>>

\* C12: a chunkText call of components/ragUi/text-chunker.ts that has entered
\* its loop returns.
C12_UiChunkTextReturns ==
  (kVariant = "ragUi" /\ kPc = "loop") ~> (kPc = "returned")

\* C13: every turn of the loop of chunkText leaves startIndex greater than it
\* found it.
C13_StartIndexStrictlyIncreases ==
  [][chunkTextIteration => kStartIndex' > kStartIndex]_vars

\* C14: lexical search returns for every chunk list and every query, and
\* returns no result for an empty chunk list, an empty or whitespace-only
\* query and a query without a word of more than 2 characters.
C14_LexicalSearchIsTotal ==
  lPc # "input" =>
    /\ lPc = "returned"
    /\ (\/ lChunks = <<>>
        \/ \A k \in 1..Len(lQuery.words) : Len(lQuery.words[k]) <= 2)
       => lResult = <<>>

\* The positions at which a list of search results holds the chunks of the
\* corpus it was made from.
ResultChunks(results) == [k \in 1..Len(results) |-> results[k].chunk]

\* C21: a lexical search, a vector search and a getContext call leave the chunk
\* list and the embedding list (contents and order), in the service and in the
\* store, and the document registry exactly as they were.
C21_SearchIsReadOnly ==
  [][(\/ \E query \in SearchQueries, maxLength \in MaxLengths :
           getContext(query, maxLength)
      \/ \E query \in SearchQueries, topK \in {1, 5} : serviceSearch(query, topK)
      \/ \E query \in LexQueries, topK \in {1, 5} :
           lexSearch(lChunks, query, topK))
     => UNCHANGED <<chunks, embeddings, lChunks, dataChunks, dataEmbeddings,
                    fileObj, files, dataFiles>>]_vars

\* A vector search has returned two or more results in an order that is not
\* the corpus order, and the chunk list is still what the store holds.
C21_ReturnedReorderedResults ==
  /\ sPc = "returned"
  /\ Len(sResult) >= 2
  /\ ResultChunks(sResult) # SubSeq(chunks, 1, Len(sResult))
  /\ chunks = dataChunks

\* C22: lexical search returns at most topK results, none of score 0, in
\* non-increasing order of score, chunks of equal score in corpus order.
C22_LexicalResultsRanked ==
  lPc = "returned" =>
    /\ Len(lResult) <= lTopK
    /\ \A i \in 1..Len(lResult) : lResult[i].score > 0
    /\ \A i, j \in 1..Len(lResult) :
         i < j =>
           \/ lResult[i].score > lResult[j].score
           \/ /\ lResult[i].score = lResult[j].score
              /\ lResult[i].chunk < lResult[j].chunk

\* A lexical search has returned two chunks of the same score.
C22_ReturnedTwoOfEqualScore ==
  /\ lPc = "returned"
  /\ Len(lResult) = 2
  /\ lResult[1].score = lResult[2].score

\* C23: a vector search returns [] for an empty chunk list, an empty embedding
\* list and a missing or empty query embedding; in what it returns, every
\* score is a number, and it is 0 for a chunk whose index has no embedding, for
\* a chunk whose embedding has norm 0, and for every chunk when the query
\* embedding has norm 0.
C23_VectorSearchDegenerateInputs ==
  sPc = "returned" =>
    /\ (chunks = <<>> \/ embeddings = <<>> \/ sQuery.embedding = <<>>)
         => sResult = <<>>
    /\ \A i \in 1..Len(sResult) :
         LET similarity == sResult[i].similarity
             index == sResult[i].chunk.id[2]
             q == sQuery.embedding
         IN /\ similarity.sq > 0
            /\ index > Len(embeddings) => similarity.dot = 0
            /\ (index <= Len(embeddings)
                /\ (Dot(q, q) = 0
                    \/ Dot(embeddings[index].v, embeddings[index].v) = 0))
                 => similarity.dot = 0

\* A vector search for a query of norm 1 has returned a chunk that has no
\* embedding and a chunk whose embedding is the zero vector.
C23_ReturnedUnembeddedAndZeroNorm ==
  /\ sPc = "returned"
  /\ Dot(sQuery.embedding, sQuery.embedding) = 1
  /\ \E i \in 1..Len(sResult) : sResult[i].chunk.id[2] > Len(embeddings)
  /\ \E i \in 1..Len(sResult) :
       LET index == sResult[i].chunk.id[2]
       IN index <= Len(embeddings)
          /\ Dot(embeddings[index].v, embeddings[index].v) = 0

\* |a - b|
Distance(a, b) == IF a > b THEN a - b ELSE b - a

\* The '.' characters of the text in the window of 100 characters either side
\* of e, and those of them no other is nearer to e.
TerminatorsAround(text, e) == {p \in text.dots : e - 100 <= p /\ p < e + 100}
NearestTerminators(text, e) ==
  {p \in TerminatorsAround(text, e) :
     \A q \in TerminatorsAround(text, e) : Distance(p, e) <= Distance(q, e)}

\* C24: a turn of the loop of chunkText whose naive right edge
\* e = startIndex + chunkSize lies before the end of the text ends the chunk it
\* pushes just past the '.' nearest to e among those within 100 characters
\* either side of e, and at e when there is none ('.' is the only boundary
\* character of the texts followed here).
C24_BoundaryAtNearestTerminator ==
  [][(/\ chunkTextIteration
      /\ kStartIndex + kOptions.chunkSize < kText.len
      /\ Len(kChunks') = Len(kChunks) + 1)
     => LET e == kStartIndex + kOptions.chunkSize
            boundary == kChunks'[Len(kChunks')].endIndex
        IN IF TerminatorsAround(kText, e) = {} THEN boundary = e
           ELSE \E p \in NearestTerminators(kText, e) : boundary = p + 1]_vars

\* ceil((L - 150) / (800 - 150)), taken as 0 when negative
EstimatedChunks(L) ==
  IF L <= overlap THEN 0 ELSE CeilDiv(L - overlap, chunkSize - overlap)

\* A chunkText call of lib/text-chunker with the default configuration.
DefaultCall ==
  /\ kVariant = "lib"
  /\ kOptions = [chunkSize |-> chunkSize, overlap |-> overlap]

\* C25 as stated: for every text of length L that holds no '.', '?', '!' or
\* newline, chunkText with the default configuration returns, and the number
\* of chunks it returns differs from ceil((L - 150) / 650) by at most 1.
C25_ChunkCountNearEstimate ==
  /\ []((DefaultCall /\ kPc = "returned" /\ kText.dots = {})
          => Distance(Len(kChunks), EstimatedChunks(kText.len)) <= 1)
  /\ (DefaultCall /\ kPc = "loop" /\ kText.dots = {}) ~> (kPc = "returned")

\* C25, amended: the same for every text of L letters, one that holds no '.',
\* '?', '!', newline or whitespace.
C25_LettersChunkCountNearEstimate ==
  /\ []((/\ DefaultCall /\ kPc = "returned"
          /\ kText.dots = {} /\ kText.letters = kText.len)
          => Distance(Len(kChunks), EstimatedChunks(kText.len)) <= 1)
  /\ (/\ DefaultCall /\ kPc = "loop"
      /\ kText.dots = {} /\ kText.letters = kText.len) ~> (kPc = "returned")

\* chunkText with the default configuration has returned 3 chunks for a text
\* of 1000 letters.
C25_ThreeChunksOfThousandLetters ==
  /\ DefaultCall
  /\ kPc = "returned"
  /\ kText = [len |-> 1000, dots |-> {}, letters |-> 1000]
  /\ Len(kChunks) = 3

\* C26: when indexFiles() has ended with no deadline hit and with a failure
\* recorded on a document of the registry, it has returned normally, and every
\* document of the registry without a recorded failure is marked indexed and
\* has all its chunks in the chunk list of the file manager.
C26_FailureStaysOnItsDocument ==
  (/\ pc \in {"done", "failed"}
   /\ ~deadlineHit
   /\ \E d \in Ids(files) : fileObj[d].error # "none")
  => /\ pc = "done"
     /\ \A f \in Ids(files) :
          fileObj[f].error = "none" =>
            /\ fileObj[f].indexed
            /\ ChunksOf(fmChunks, f) # <<>>
            /\ ChunksOf(fmChunks, f) = processFileInBatches(fileObj[f])

\* indexFiles() has returned after the first document of the registry was
\* found too large and the second one was chunked and indexed.
C26_IndexedBehindFailedDocument ==
  /\ pc = "done"
  /\ ~deadlineHit
  /\ Len(files) = 2
  /\ fileObj[files[1]].error = "File too large for processing"
  /\ fileObj[files[2]].indexed
  /\ ChunksOf(chunks, files[2]) # <<>>

\* The fileId of every chunk of a list is the id of a document of a list.
FromDocuments(cs, list) == \A k \in 1..Len(cs) : cs[k].fileId \in Ids(list)

\* C27: in every state reached by addFiles, removeFile, indexFiles and clear
\* calls, the fileId of every chunk, in the service, in the file manager and
\* in the store, is the id of a document of the file manager's list and of
\* the list getFiles() returns.
C27_ChunksBelongToRegistry ==
  /\ FromDocuments(chunks, files) /\ FromDocuments(chunks, dataFiles)
  /\ FromDocuments(fmChunks, files) /\ FromDocuments(fmChunks, dataFiles)
  /\ FromDocuments(dataChunks, files) /\ FromDocuments(dataChunks, dataFiles)

\* Of two documents that were indexed one has been removed, and the chunks of
\* the other are in the service and in the store.
C27_ChunksLeftAfterRemoval ==
  /\ Len(fileObj) = 2
  /\ fileObj[1].indexed /\ fileObj[2].indexed
  /\ Len(files) = 1
  /\ chunks # <<>>
  /\ dataChunks = chunks

\* C28: an indexFiles() call made right behind one that returned with no
\* deadline hit, the registry unchanged in between, and returning with no
\* deadline hit itself, produces the chunk list the call before it produced
\* (which the store holds until the second call returns).
C28_SecondRunSameChunks ==
  [][(/\ runs = MaxRuns + 1
      /\ pc # "done" /\ pc' = "done"
      /\ ~deadlineHit')
     => chunks' = dataChunks]_vars

\* The second of two indexFiles() calls in a row has returned with chunks,
\* with no deadline hit.
C28_SecondRunReturnedChunks ==
  /\ runs = MaxRuns + 1
  /\ pc = "done"
  /\ ~deadlineHit
  /\ chunks # <<>>

RECURSIVE Occurrences(_, _)
\* How many entries of ids are id.
Occurrences(ids, id) ==
  IF ids = <<>> THEN 0
  ELSE (IF ids[1] = id THEN 1 ELSE 0) + Occurrences(Tail(ids), id)

\* C29: once an index request has been served, every document id occurs once
\* in data.files, the list getFiles() returns and getStats() counts.
C29_RegistryIdsUnique ==
  (runs > 0 /\ Quiescent) =>
    \A k \in 1..Len(dataFiles) : Occurrences(dataFiles, dataFiles[k]) = 1

\* C30: once handleIndexFiles has turned isIndexing on, isIndexing is turned off
\* again, whether the promise of ragService.indexFiles() resolves, rejects or
\* stays pending.
C30_SpinnerStops == (isIndexing = TRUE) ~> (isIndexing = FALSE)

\* handleIndexFiles has returned with the spinner off while the promise of
\* ragService.indexFiles() is still pending.
C30_ReturnedWhilePending ==
  /\ hPc = "returned"
  /\ hPromise = "pending"
  /\ hTimeout = "fired"
  /\ isIndexing = FALSE

\* The query words the search keeps: lowercased, longer than two characters.
SurvivingTokens(query) ==
  SelectSeq([k \in 1..Len(query.words) |-> toLowerCase(query.words[k])],
            LAMBDA word : Len(word) > 2)

\* The lowercased content holds the token, or the token's stem, as a substring.
ContainsToken(content, token) ==
  \E k \in 1..Len(content.words) :
    \/ Includes(toLowerCase(content.words[k]), token)
    \/ Includes(toLowerCase(content.words[k]), Stem(token))

MatchesQuery(content, query) ==
  \E k \in 1..Len(SurvivingTokens(query)) :
    ContainsToken(content, SurvivingTokens(query)[k])

\* C31 as stated: every chunk the lexical search returns holds a surviving
\* query token, or its stem, as a substring, whatever the chunk's length.
C31_ResultsMatchAToken ==
  lPc = "returned" =>
    \A r \in 1..Len(lResult) : MatchesQuery(lChunks[lResult[r].chunk], lQuery)

\* A surviving token of the query, read as a regular expression, matches a
\* word of the content, or its stem of more than two characters the start of
\* one.
PatternMatchesQuery(content, query) ==
  \E k \in 1..Len(SurvivingTokens(query)), j \in 1..Len(content.words) :
    LET token == SurvivingTokens(query)[k]
        word == toLowerCase(content.words[j])
    IN \/ PatternEq(word, token)
       \/ Len(Stem(token)) > 2 /\ PatternPrefix(word, Stem(token))

\* C31, amended: every chunk the lexical search returns holds a surviving query
\* token, or its stem, as a substring, or is matched by a token or stem read
\* as a regular expression, or is longer than 200 characters; a chunk of at
\* most 200 characters with none of these is not returned.
C31_ResultsMatchOrAreLong ==
  lPc = "returned" =>
    \A r \in 1..Len(lResult) :
      \/ MatchesQuery(lChunks[lResult[r].chunk], lQuery)
      \/ PatternMatchesQuery(lChunks[lResult[r].chunk], lQuery)
      \/ ContentLength(lChunks[lResult[r].chunk]) > 200

\* A search has returned one of two chunks and left out the other, a chunk of
\* at most 200 characters that holds none of the query's tokens.
C31_ShortUnmatchedChunkLeftOut ==
  /\ lPc = "returned"
  /\ Len(lChunks) = 2
  /\ Len(lResult) = 1
  /\ lTopK = 5
  /\ \E k \in 1..2 :
       /\ lResult[1].chunk # k
       /\ ContentLength(lChunks[k]) <= 200
       /\ ~MatchesQuery(lChunks[k], lQuery)
       /\ ~PatternMatchesQuery(lChunks[k], lQuery)

\* C32 as stated: every chunk chunkText emits reaches beyond the end of the
\* chunk emitted before it.
C32_EveryChunkAddsText ==
  kVariant = "lib" =>
    \A k \in 2..Len(kChunks) : kChunks[k].endIndex > kChunks[k - 1].endIndex

\* C32, amended: with chunkSize - overlap >= 100, every chunk chunkText emits
\* reaches beyond the end of the chunk emitted before it, unless that chunk
\* ended at the end of the text.
C32_ChunkAddsTextUnlessTextWasUsedUp ==
  (kVariant = "lib" /\ kOptions.chunkSize - kOptions.overlap >= 100) =>
    \A k \in 2..Len(kChunks) :
      \/ kChunks[k].endIndex > kChunks[k - 1].endIndex
      \/ kChunks[k - 1].endIndex = kText.len

\* chunkText with the default configuration has returned, for a text with a
\* '.', chunks of which one reaches beyond the chunk in front of it and the
\* last lies inside the chunk in front of it.
C32_ReturnedWithTailInsidePrevious ==
  /\ kPc = "returned"
  /\ kVariant = "lib"
  /\ kOptions = [chunkSize |-> chunkSize, overlap |-> overlap]
  /\ kText.dots # {}
  /\ Len(kChunks) >= 3
  /\ kChunks[2].endIndex > kChunks[1].endIndex
  /\ kChunks[Len(kChunks)].endIndex = kChunks[Len(kChunks) - 1].endIndex

\* C33: for a document of at most MAX_FILE_SIZE characters chunked with the
\* default configuration, the loop ends because startIndex has reached the end
\* of the text, never at the iteration ceiling with text left.
C33_LoopEndsAtEndOfText ==
  (/\ kPc = "returned"
   /\ kVariant = "lib"
   /\ kOptions = [chunkSize |-> chunkSize, overlap |-> overlap]
   /\ kText.letters > 0
   /\ kText.len <= MAX_FILE_SIZE)
  => kStartIndex >= kText.len

\* C34: when indexFiles() has ended, normally, at a deadline or by failure,
\* every document of the file manager that is flagged indexed has chunks in
\* the service's chunk list.
C34_IndexedDocumentsHaveChunks ==
  (runs > 0 /\ Quiescent) =>
    \A k \in 1..Len(files) :
      fileObj[files[k]].indexed =>
        \E c \in 1..Len(chunks) : chunks[c].fileId = files[k]

\* C35: at most one promise of a ragService.indexFiles() call started from the
\* page is pending at any time.
C35_OneIndexFilesInFlight ==
  (IF hPromise = "pending" THEN 1 ELSE 0) + hEarlier <= 1

\* C36: with the default configuration, a turn of the loop of chunkText leaves
\* startIndex at most at the actualEndIndex of that turn, and every chunk
\* pushed so far has 0 < endIndex - startIndex <= chunkSize + 100, an endIndex
\* within the text and a trimmed content of more than 50 characters.
C36_NoGapAndChunksBounded ==
  [][(chunkTextIteration /\ DefaultCall)
     => /\ kStartIndex' <= ActualEndIndex(kText, kStartIndex, kOptions.chunkSize)
        /\ \A k \in 1..Len(kChunks') :
             /\ 0 < kChunks'[k].endIndex - kChunks'[k].startIndex
             /\ kChunks'[k].endIndex - kChunks'[k].startIndex <= chunkSize + 100
             /\ kChunks'[k].endIndex <= kText.len
             /\ kChunks'[k].len > 50]_vars

\* chunkText with the default configuration has returned, for a text with a
\* '.' behind the naive edge of the first window, a first chunk of more than
\* chunkSize characters and a next chunk that starts inside it.
C36_ReturnedChunkPastNaiveEdge ==
  /\ DefaultCall
  /\ kPc = "returned"
  /\ Len(kChunks) >= 2
  /\ kChunks[1].endIndex - kChunks[1].startIndex > chunkSize
  /\ kChunks[2].startIndex < kChunks[1].endIndex

====
